---- MODULE Spec2Model ----
(***************************************************************************)
(* Model of Copter's one-loop Standard Perturbation Theory evaluator       *)
(* (src/src/SPT.cpp): the public dispatch SPT::P / P22 / P13 / G, the      *)
(* P22 and P13 integral drivers, the kernels F2, G2 and f13_dd/dt/tt.      *)
(*                                                                         *)
(* `real` is IEEE-754 binary64.  The arithmetic below is binary64 itself:  *)
(* every +, -, *, / is computed exactly on integer significands and then   *)
(* rounded to nearest, ties to even, so that an evaluation order that      *)
(* matters in the C++ matters here.  Significands do not fit TLC's         *)
(* integers and are kept as little-endian sequences of 14-bit limbs.       *)
(***************************************************************************)
EXTENDS Integers, Sequences, FiniteSets, TLC

(***************************************************************************)
(* Natural numbers of any size: <<>> is 0, the last limb is never 0.       *)
(***************************************************************************)
LimbBits == 7 + 7
Base == 2^LimbBits

RECURSIVE BTrim(_)
BTrim(x) ==
    IF x = <<>> THEN <<>>
    ELSE IF x[Len(x)] = 0 THEN BTrim(SubSeq(x, 1, Len(x) - 1))
    ELSE x

RECURSIVE BFromNat(_)
BFromNat(n) == IF n = 0 THEN <<>> ELSE <<n % Base>> \o BFromNat(n \div Base)

Limb0(x) == IF x = <<>> THEN 0 ELSE Head(x)
Rest(x) == IF x = <<>> THEN <<>> ELSE Tail(x)

RECURSIVE BAddC(_, _, _)
BAddC(x, y, c) ==
    IF x = <<>> /\ y = <<>> THEN (IF c = 0 THEN <<>> ELSE <<c>>)
    ELSE <<(Limb0(x) + Limb0(y) + c) % Base>>
         \o BAddC(Rest(x), Rest(y), (Limb0(x) + Limb0(y) + c) \div Base)

BAdd(x, y) == BAddC(x, y, 0)

\* x - y - c for x >= y + c, before trimming
RECURSIVE BSubC(_, _, _)
BSubC(x, y, c) ==
    IF x = <<>> THEN <<>>
    ELSE <<(Head(x) - Limb0(y) - c + Base) % Base>>
         \o BSubC(Tail(x), Rest(y), IF Head(x) - Limb0(y) - c < 0 THEN 1 ELSE 0)

BSub(x, y) == BTrim(BSubC(x, y, 0))

\* -1, 0, 1 as x < y, x = y, x > y; the limbs are compared from the top
RECURSIVE BCmpFrom(_, _, _)
BCmpFrom(x, y, i) ==
    IF i = 0 THEN 0
    ELSE IF x[i] < y[i] THEN -1
    ELSE IF x[i] > y[i] THEN 1
    ELSE BCmpFrom(x, y, i - 1)

BCmp(x, y) ==
    IF Len(x) < Len(y) THEN -1
    ELSE IF Len(x) > Len(y) THEN 1
    ELSE BCmpFrom(x, y, Len(x))

\* x * d + c for a single limb d
RECURSIVE BMulSmallC(_, _, _)
BMulSmallC(x, d, c) ==
    IF x = <<>> THEN (IF c = 0 THEN <<>> ELSE <<c>>)
    ELSE <<(Head(x) * d + c) % Base>>
         \o BMulSmallC(Tail(x), d, (Head(x) * d + c) \div Base)

BMulSmall(x, d) == IF d = 0 THEN <<>> ELSE BMulSmallC(x, d, 0)

BShiftLimbs(x, n) == IF x = <<>> THEN <<>> ELSE [i \in 1..n |-> 0] \o x

RECURSIVE BMul(_, _)
BMul(x, y) ==
    IF x = <<>> \/ y = <<>> THEN <<>>
    ELSE BAdd(BMulSmall(x, Head(y)), BShiftLimbs(BMul(x, Tail(y)), 1))

\* x * 2^n
BShl(x, n) == BShiftLimbs(BMulSmall(x, 2^(n % LimbBits)), n \div LimbBits)

\* x without its q lowest limbs, and floor(y / 2^r) for r < LimbBits
BDrop(x, q) == IF q >= Len(x) THEN <<>> ELSE SubSeq(x, q + 1, Len(x))
BShrBits(y, r) ==
    BTrim([i \in 1..Len(y) |->
             (y[i] \div 2^r)
             + (IF i < Len(y) THEN (y[i + 1] % 2^r) * 2^(LimbBits - r) ELSE 0)])

\* floor(x / 2^n)
BShr(x, n) == BShrBits(BDrop(x, n \div LimbBits), n % LimbBits)

RECURSIVE BitLenSmall(_)
BitLenSmall(n) == IF n = 0 THEN 0 ELSE 1 + BitLenSmall(n \div 2)

BBitLen(x) ==
    IF x = <<>> THEN 0 ELSE (Len(x) - 1) * LimbBits + BitLenSmall(x[Len(x)])

\* bit i of x, bit 0 the lowest
BBit(x, i) ==
    IF i \div LimbBits + 1 > Len(x) THEN 0
    ELSE (x[i \div LimbBits + 1] \div 2^(i % LimbBits)) % 2

\* the n lowest bits of x are all 0
BLowZero(x, n) ==
    /\ \A i \in 1..(n \div LimbBits) : i > Len(x) \/ x[i] = 0
    /\ \/ n \div LimbBits + 1 > Len(x)
       \/ x[n \div LimbBits + 1] % 2^(n % LimbBits) = 0

RECURSIVE BToNat(_)
BToNat(x) == IF x = <<>> THEN 0 ELSE Head(x) + Base * BToNat(Tail(x))

(***************************************************************************)
(* Long division of significands, one limb of the quotient a step.  For    *)
(* d in [2^52, 2^53) and rem < d the digit floor(rem * Base / d) is        *)
(* estimated from the leading bits of both; the estimate is at most one    *)
(* too large and at most two too small, which the comparisons with the     *)
(* true product repair.                                                    *)
(***************************************************************************)
EstShift == 2 * LimbBits + 9

BDivFix(r, d, est, p) ==
    IF BCmp(p, r) > 0 THEN est - 1
    ELSE IF BCmp(BSub(r, p), d) < 0 THEN est
    ELSE IF BCmp(BSub(BSub(r, p), d), d) < 0 THEN est + 1
    ELSE est + 2

BDivEst(r, d, est) == BDivFix(r, d, est, BMulSmall(d, est))

BDivDigit(r, d) ==
    BDivEst(r, d, BToNat(BShr(r, EstShift)) \div BToNat(BShr(d, EstShift)))

\* n more digits of quo, the quotient so far, with remainder rem < d
RECURSIVE BDivSteps(_, _, _, _)
BDivTake(r, d, quo, n, dg) ==
    BDivSteps(BSub(r, BMulSmall(d, dg)), d,
              IF quo = <<>> /\ dg = 0 THEN <<>> ELSE <<dg>> \o quo,
              n - 1)

BDivShifted(r, d, quo, n) == BDivTake(r, d, quo, n, BDivDigit(r, d))

BDivSteps(rem, d, quo, n) ==
    IF n = 0 THEN [q |-> quo, inexact |-> rem # <<>>]
    ELSE BDivShifted(BShiftLimbs(rem, 1), d, quo, n)

\* floor(x * Base^n / d) for x, d in [2^52, 2^53), and whether it is inexact
BDiv(x, n, d) ==
    BDivSteps(IF BCmp(x, d) >= 0 THEN BSub(x, d) ELSE x, d,
              IF BCmp(x, d) >= 0 THEN <<1>> ELSE <<>>, n)

(***************************************************************************)
(* binary64.  A finite non-zero value is (-1)^s * m * 2^e with the         *)
(* significand m in [2^52, 2^53), or below 2^52 with e = EMin (subnormal). *)
(* Zeros and infinities keep their sign; there is one NaN.                 *)
(***************************************************************************)
MantBits == 52 + 1
EMax == 1024 - MantBits
EMin == (-1021) - MantBits

Fin(s, m, e) == [c |-> "fin", s |-> s, m |-> m, e |-> e]
Zero(s) == [c |-> "zero", s |-> s, m |-> <<>>, e |-> 0]
Inf(s) == [c |-> "inf", s |-> s, m |-> <<>>, e |-> 0]
NaN == [c |-> "nan", s |-> 0, m |-> <<>>, e |-> 0]

Pack(s, m, e) == IF e > EMax THEN Inf(s) ELSE Fin(s, m, e)

\* the rounded significand q1 at exponent e: a carry out of MantBits bits
\* moves one place up
RoundFin(s, q1, e) ==
    IF q1 = <<>> THEN Zero(s)
    ELSE IF BBitLen(q1) > MantBits THEN Pack(s, BShr(q1, 1), e + 1)
    ELSE Pack(s, q1, e)

\* M with its sh lowest bits rounded off, to nearest, ties to even
RoundAt(s, M, e, sh, q) ==
    RoundFin(s,
             IF BBit(M, sh - 1) = 1 /\ (~BLowZero(M, sh - 1) \/ BBit(q, 0) = 1)
             THEN BAdd(q, <<1>>) ELSE q,
             e + sh)

RoundBy(s, M, e, sh) ==
    IF sh <= 0 THEN Pack(s, BShl(M, -sh), e + sh)
    ELSE RoundAt(s, M, e, sh, BShr(M, sh))

\* (-1)^s * M * 2^e for any natural M > 0, rounded to nearest, ties to even
Round(s, M, e) ==
    RoundBy(s, M, e,
            IF EMin - e > BBitLen(M) - MantBits THEN EMin - e
            ELSE BBitLen(M) - MantBits)

\* an integer of TLC's range is a binary64 value exactly
FromNat(s, M) == Fin(s, BShl(M, MantBits - BBitLen(M)), BBitLen(M) - MantBits)
FromInt(n) ==
    IF n = 0 THEN Zero(0)
    ELSE IF n < 0 THEN FromNat(1, BFromNat(-n))
    ELSE FromNat(0, BFromNat(n))

FNeg(x) == IF x.c = "nan" THEN x ELSE [x EXCEPT !.s = 1 - x.s]
FAbs(x) == IF x.c = "nan" THEN x ELSE [x EXCEPT !.s = 0]

\* The sum of two finite non-zero values, hi the one of the larger
\* exponent.  An operand more than GuardGap binary places below the other
\* only decides the rounding direction.
GuardGap == MantBits + 8
AddMag(sh, mh, sl, ml, e0, cmp) ==
    IF sh = sl THEN Round(sh, BAdd(mh, ml), e0)
    ELSE IF cmp = 0 THEN Zero(0)
    ELSE Round(IF cmp > 0 THEN sh ELSE sl,
               IF cmp > 0 THEN BSub(mh, ml) ELSE BSub(ml, mh), e0)

AddAligned(sh, mh, sl, ml, e0) == AddMag(sh, mh, sl, ml, e0, BCmp(mh, ml))

AddOrd(hi, lo, far) ==
    AddAligned(hi.s, BShl(hi.m, IF far THEN 3 ELSE hi.e - lo.e),
               lo.s, IF far THEN <<1>> ELSE lo.m,
               IF far THEN hi.e - 3 ELSE lo.e)

AddFin(x, y) ==
    AddOrd(IF x.e >= y.e THEN x ELSE y, IF x.e >= y.e THEN y ELSE x,
           (IF x.e >= y.e THEN x.e - y.e ELSE y.e - x.e) > GuardGap)

FAdd(x, y) ==
    IF x.c = "nan" \/ y.c = "nan" THEN NaN
    ELSE IF x.c = "inf" THEN (IF y.c = "inf" /\ y.s # x.s THEN NaN ELSE x)
    ELSE IF y.c = "inf" THEN y
    ELSE IF x.c = "zero" THEN (IF y.c = "zero" THEN Zero(IF x.s = 1 /\ y.s = 1 THEN 1 ELSE 0) ELSE y)
    ELSE IF y.c = "zero" THEN x
    ELSE AddFin(x, y)

FSub(x, y) == FAdd(x, FNeg(y))

SignXor(x, y) == IF x.s = y.s THEN 0 ELSE 1

FMul(x, y) ==
    IF x.c = "nan" \/ y.c = "nan" THEN NaN
    ELSE IF x.c = "inf" \/ y.c = "inf"
         THEN (IF x.c = "zero" \/ y.c = "zero" THEN NaN ELSE Inf(SignXor(x, y)))
    ELSE IF x.c = "zero" \/ y.c = "zero" THEN Zero(SignXor(x, y))
    ELSE Round(SignXor(x, y), BMul(x.m, y.m), x.e + y.e)

\* the places a significand is shifted up to reach MantBits bits
NormShift(x) == MantBits - BBitLen(x.m)
DivRound(s, r, e) == Round(s, BMulSmallC(r.q, 2, IF r.inexact THEN 1 ELSE 0), e)
DivNorm(x, y, kx, ky) ==
    DivRound(SignXor(x, y), BDiv(BShl(x.m, kx), 4, BShl(y.m, ky)),
             (x.e - kx) - (y.e - ky) - (4 * LimbBits + 1))
DivFin(x, y) == DivNorm(x, y, NormShift(x), NormShift(y))

FDiv(x, y) ==
    IF x.c = "nan" \/ y.c = "nan" THEN NaN
    ELSE IF x.c = "inf" THEN (IF y.c = "inf" THEN NaN ELSE Inf(SignXor(x, y)))
    ELSE IF y.c = "inf" THEN Zero(SignXor(x, y))
    ELSE IF y.c = "zero" THEN (IF x.c = "zero" THEN NaN ELSE Inf(SignXor(x, y)))
    ELSE IF x.c = "zero" THEN Zero(SignXor(x, y))
    ELSE DivFin(x, y)

\* -1, 0, 1 as |x| < |y|, |x| = |y|, |x| > |y|, neither a NaN
MagCmp(x, y) ==
    IF x.c = "zero" THEN (IF y.c = "zero" THEN 0 ELSE -1)
    ELSE IF y.c = "zero" THEN 1
    ELSE IF x.c = "inf" THEN (IF y.c = "inf" THEN 0 ELSE 1)
    ELSE IF y.c = "inf" THEN -1
    ELSE IF x.e # y.e THEN (IF x.e < y.e THEN -1 ELSE 1)
    ELSE BCmp(x.m, y.m)

\* -1, 0, 1 as x < y, x = y, x > y, neither a NaN; -0 = +0
FCmp(x, y) ==
    IF x.c = "zero" /\ y.c = "zero" THEN 0
    ELSE IF x.c = "zero" THEN (IF y.s = 1 THEN 1 ELSE -1)
    ELSE IF y.c = "zero" THEN (IF x.s = 1 THEN -1 ELSE 1)
    ELSE IF x.s # y.s THEN (IF x.s = 1 THEN -1 ELSE 1)
    ELSE (1 - 2 * x.s) * MagCmp(x, y)

Ordered(x, y) == x.c # "nan" /\ y.c # "nan"
FLt(x, y) == Ordered(x, y) /\ FCmp(x, y) < 0
FLe(x, y) == Ordered(x, y) /\ FCmp(x, y) <= 0
FGt(x, y) == FLt(y, x)
FGe(x, y) == FLe(y, x)
FEq(x, y) == Ordered(x, y) /\ FCmp(x, y) = 0

\* fmax of <cmath>: the other operand when one is a NaN
FMax(x, y) ==
    IF x.c = "nan" THEN y
    ELSE IF y.c = "nan" THEN x
    ELSE IF FCmp(x, y) < 0 THEN y ELSE x

IsFinite(x) == x.c \in {"fin", "zero"}

(***************************************************************************)
(* Literals and <cmath>.                                                   *)
(***************************************************************************)
\* an integer literal converted to real, and a quotient of two literals
D(n) == FromInt(n)

\* the quotients of two literals that SPT.cpp and the sample points write,
\* each computed once
Quotients ==
    {<<-504, 5>>, <<-488, 5>>, <<1, 2>>, <<1, 4>>, <<1, 7>>, <<1, 14>>,
     <<1, 100>>, <<1, 1000>>, <<1, 10000>>, <<1, 100000>>, <<1, 1000000>>,
     <<3, 4>>, <<3, 7>>, <<3, 10>>, <<5, 7>>, <<32, 5>>, <<96, 5>>, <<96, 7>>,
     <<160, 21>>, <<160, 231>>, <<224, 15>>, <<352, 105>>, <<416, 5>>,
     <<416, 21>>, <<608, 105>>, <<928, 5>>, <<1248, 35>>, <<1312, 105>>,
     <<1376, 1155>>, <<1888, 1155>>, <<2208, 35>>, <<2976, 35>>,
     <<4512, 35>>}
QuotientOf == [p \in Quotients |-> FDiv(FromInt(p[1]), FromInt(p[2]))]
Ratio(a, b) == QuotientOf[<<a, b>>]

One == D(1)
Half == Ratio(1, 2)

\* M_PI of <cmath>: 0x1.921fb54442d18p+1
M_PI == Fin(0, <<11544, 4368, 8117, 1608>>, -51)

\* exp and log of libm at the arguments the model's runs reach, as the
\* C library of the build returns them: pairs <<argument, value>>
ExpTable ==
    {
       <<Fin(1, <<10843,10890,10722,1473>>, -49),
         Fin(0, <<10479,9101,2904,1342>>, -69)>>,
       <<Fin(1, <<16288,9791,6313,1768>>, -50),
         Fin(0, <<10749,3014,9437,1048>>, -62)>>,
       <<Fin(1, <<10843,10890,10722,1473>>, -50),
         Fin(0, <<4278,4302,15470,1657>>, -61)>>,
       <<Zero(0),
         Fin(0, <<0,0,0,1024>>, -52)>>,
       <<Fin(0, <<14831,15336,9263,1419>>, -54),
         Fin(0, <<15308,6652,2534,1448>>, -52)>>,
       <<Fin(0, <<14831,15336,9263,1419>>, -53),
         Fin(0, <<0,0,0,1024>>, -51)>>,
       <<Fin(0, <<5398,11989,15131,1178>>, -51),
         Fin(0, <<1,0,0,1280>>, -49)>>,
       <<Fin(0, <<7251,11858,6049,1356>>, -51),
         Fin(0, <<2750,124,3168,1810>>, -49)>>,
       <<Fin(0, <<14516,11923,10590,1267>>, -50),
         Fin(0, <<9910,77,6076,1131>>, -45)>>,
       <<Fin(0, <<7251,11858,6049,1356>>, -50),
         Fin(0, <<16381,16383,16383,1599>>, -45)>>,
       <<Fin(0, <<10842,10890,10722,1473>>, -50),
         Fin(0, <<5972,14314,14926,1264>>, -44)>>,
       <<Fin(0, <<3578,10825,6181,1562>>, -50),
         Fin(0, <<11847,3189,13998,1788>>, -44)>>,
       <<Fin(0, <<16288,9791,6313,1768>>, -50),
         Fin(0, <<16382,16383,16383,1999>>, -43)>>,
       <<Fin(0, <<9957,3764,4669,1223>>, -49),
         Fin(0, <<4223,12409,12565,1767>>, -39)>>,
       <<Fin(0, <<14516,11923,10590,1267>>, -49),
         Fin(0, <<16379,16383,16383,1249>>, -38)>>,
       <<Fin(0, <<10843,10890,10722,1473>>, -49),
         Fin(0, <<1,0,8192,1562>>, -36)>>,
       <<Fin(0, <<3578,10825,6181,1562>>, -49),
         Fin(0, <<2,0,8192,1562>>, -35)>>,
       <<Fin(0, <<9957,3764,4669,1223>>, -48),
         Fin(0, <<0,0,14400,1525>>, -25)>>
    }
LogTable ==
    {
       <<Fin(0, <<10481,9101,2904,1342>>, -69),
         Fin(1, <<10843,10890,10722,1473>>, -49)>>,
       <<Fin(0, <<10748,3014,9437,1048>>, -62),
         Fin(1, <<16288,9791,6313,1768>>, -50)>>,
       <<Fin(0, <<0,0,0,1024>>, -52),
         Zero(0)>>,
       <<Fin(0, <<2813,10757,11253,1044>>, -52),
         Fin(0, <<1405,5748,12512,1310>>, -58)>>,
       <<Fin(0, <<9186,7759,14390,1090>>, -52),
         Fin(0, <<9741,7017,9187,1036>>, -56)>>,
       <<Fin(0, <<14563,3640,9102,1251>>, -52),
         Fin(0, <<1038,13453,14652,1643>>, -55)>>,
       <<Fin(0, <<14564,3640,9102,1251>>, -52),
         Fin(0, <<1045,13453,14652,1643>>, -55)>>,
       <<Fin(0, <<8564,14041,2447,1971>>, -52),
         Fin(0, <<14146,9814,3863,1341>>, -53)>>,
       <<Fin(0, <<8571,14041,2447,1971>>, -52),
         Fin(0, <<14153,9814,3863,1341>>, -53)>>,
       <<Fin(0, <<0,0,0,1024>>, -51),
         Fin(0, <<14831,15336,9263,1419>>, -53)>>,
       <<Fin(0, <<0,0,0,1280>>, -49),
         Fin(0, <<5398,11989,15131,1178>>, -51)>>,
       <<Fin(0, <<0,0,0,1600>>, -45),
         Fin(0, <<7251,11858,6049,1356>>, -50)>>,
       <<Fin(0, <<0,0,0,2000>>, -43),
         Fin(0, <<16288,9791,6313,1768>>, -50)>>,
       <<Fin(0, <<0,0,0,1250>>, -38),
         Fin(0, <<14516,11923,10590,1267>>, -49)>>,
       <<Fin(0, <<0,0,8192,1562>>, -36),
         Fin(0, <<10843,10890,10722,1473>>, -49)>>,
       <<Fin(0, <<0,0,8192,1562>>, -35),
         Fin(0, <<3578,10825,6181,1562>>, -49)>>,
       <<Fin(0, <<0,0,14400,1525>>, -25),
         Fin(0, <<9957,3764,4669,1223>>, -48)>>
    }
\* at a NaN, an infinity or (log) a zero or negative argument: Annex F of C
Exp(x) ==
    IF x.c = "nan" THEN NaN
    ELSE IF x.c = "inf" THEN (IF x.s = 0 THEN Inf(0) ELSE Zero(0))
    ELSE (CHOOSE p \in ExpTable : p[1] = x)[2]
Log(x) ==
    IF x.c = "nan" THEN NaN
    ELSE IF x.c = "zero" THEN Inf(1)
    ELSE IF x.s = 1 THEN NaN
    ELSE IF x.c = "inf" THEN Inf(0)
    ELSE (CHOOSE p \in LogTable : p[1] = x)[2]

\* integer powers (Common.h)
pow2(x) == FMul(x, x)
pow3(x) == FMul(FMul(x, x), x)
pow4(x) == pow2(pow2(x))
pow6(x) == pow3(pow2(x))

(***************************************************************************)
(* SPT.cpp                                                                 *)
(***************************************************************************)
\* Limits of integration for second-order power spectrum
QMIN == Ratio(1, 100000)
QMAX == D(100000)

\* The linear power spectrum collaborators an evaluator is built on
\* (PowerSpectrum.h): P_L(k) = k and P_L(k) = 0
Spectra == {"linear", "zero"}
PLEval(pl, k) ==
    CASE pl = "linear" -> k
      [] pl = "zero"   -> Zero(0)

\* F_2^{(s)}(q, k-q): q and r clamped, then squared, then the formula
F2_of(k2, q2, r2, t) ==
    FAdd(FAdd(Ratio(5, 7),
              FDiv(FMul(Ratio(1, 14), pow2(t)), FMul(q2, r2))),
         FMul(FMul(Ratio(1, 4), t), FAdd(FDiv(One, q2), FDiv(One, r2))))
F2_sq(k2, q2, r2) == F2_of(k2, q2, r2, FSub(FSub(k2, q2), r2))
F2(k, q, r) ==
    F2_sq(FMul(k, k),
          FMul(FMax(q, QMIN), FMax(q, QMIN)), FMul(FMax(r, QMIN), FMax(r, QMIN)))

\* G_2^{(s)}(q, k-q)
G2_of(k2, q2, r2, t) ==
    FAdd(FAdd(Ratio(3, 7),
              FDiv(FMul(Ratio(1, 7), pow2(t)), FMul(q2, r2))),
         FMul(FMul(Ratio(1, 4), t), FAdd(FDiv(One, q2), FDiv(One, r2))))
G2_sq(k2, q2, r2) == G2_of(k2, q2, r2, FSub(FSub(k2, q2), r2))
G2(k, q, r) ==
    G2_sq(FMul(k, k),
          FMul(FMax(q, QMIN), FMax(q, QMIN)), FMul(FMax(r, QMIN), FMax(r, QMIN)))

(***************************************************************************)
(* What a call does besides returning a value: the wavenumbers at which    *)
(* it evaluates P_L, the divisions it performs whose divisor is an         *)
(* argument or a value of P_L (as <<site, divisor>>), the quadrature       *)
(* engine invocations and the diagnostics emitted through warning().       *)
(***************************************************************************)
NoFx == [pl |-> {}, div |-> {}, engine |-> 0, warn |-> 0]
Join(f, g) ==
    [pl |-> f.pl \cup g.pl, div |-> f.div \cup g.div,
     engine |-> f.engine + g.engine, warn |-> f.warn + g.warn]
Ret(v, fx) == [v |-> v, fx |-> fx]

\* u * q * r * P_L(q) * P_L(r), the factor the three P22 integrands share
P22_weight(P_L, u, q, r) ==
    FMul(FMul(FMul(FMul(u, q), r), PLEval(P_L, q)), PLEval(P_L, r))

\* the integrands at u = exp(logu), q = (k/2)*(u - v), r = (k/2)*(u + v)
P22_dd_at(P_L, k, u, q, r) ==
    [v |-> FMul(P22_weight(P_L, u, q, r), pow2(F2(k, q, r))),
     fx |-> [NoFx EXCEPT !.pl = {q, r}], q |-> q, r |-> r]
P22_dt_at(P_L, k, u, q, r) ==
    [v |-> FMul(FMul(P22_weight(P_L, u, q, r), F2(k, q, r)), G2(k, q, r)),
     fx |-> [NoFx EXCEPT !.pl = {q, r}], q |-> q, r |-> r]
P22_tt_at(P_L, k, u, q, r) ==
    [v |-> FMul(P22_weight(P_L, u, q, r), pow2(G2(k, q, r))),
     fx |-> [NoFx EXCEPT !.pl = {q, r}], q |-> q, r |-> r]

P22_dd_u(P_L, k, u, v) ==
    P22_dd_at(P_L, k, u, FMul(FDiv(k, D(2)), FSub(u, v)), FMul(FDiv(k, D(2)), FAdd(u, v)))
P22_dt_u(P_L, k, u, v) ==
    P22_dt_at(P_L, k, u, FMul(FDiv(k, D(2)), FSub(u, v)), FMul(FDiv(k, D(2)), FAdd(u, v)))
P22_tt_u(P_L, k, u, v) ==
    P22_tt_at(P_L, k, u, FMul(FDiv(k, D(2)), FSub(u, v)), FMul(FDiv(k, D(2)), FAdd(u, v)))

P22_dd_integrand(P_L, k, logu, v) == P22_dd_u(P_L, k, Exp(logu), v)
P22_dt_integrand(P_L, k, logu, v) == P22_dt_u(P_L, k, Exp(logu), v)
P22_tt_integrand(P_L, k, logu, v) == P22_tt_u(P_L, k, Exp(logu), v)

(***************************************************************************)
(* The P13 kernels.  Besides the value q * P_L(q) * s each reports q,      *)
(* r = q/k, the branch that computed s, and the divisors of that branch's  *)
(* formula.                                                                *)
(***************************************************************************)
LogTerm(r) == Log(FDiv(FAdd(One, r), FAbs(FSub(One, r))))
KernelRet(P_L, k, q, r, s, branch, dens) ==
    [v |-> FMul(FMul(q, PLEval(P_L, q)), s),
     fx |-> [NoFx EXCEPT !.pl = {q}, !.div = {<<"q/k", k>>}],
     q |-> q, r |-> r, branch |-> branch, dens |-> dens]

\* 1e-10, and the three special-case tests in the order of the code
Tol == FDiv(One, FMul(D(100000), D(100000)))
IsSmall(r) == FLt(r, Ratio(1, 100))
IsUnitSigned(r) == FLt(FSub(r, One), Tol)
IsUnit(r) == FLt(FAbs(FSub(r, One)), Tol)
IsLarge(r) == FGt(r, D(100))

f13_dd_r(P_L, k, q, r) ==
    IF IsSmall(r) THEN
        KernelRet(P_L, k, q, r,
            FAdd(FSub(FAdd(D(-168), FMul(Ratio(928, 5), pow2(r))),
                      FMul(Ratio(4512, 35), pow4(r))),
                 FMul(Ratio(416, 21), pow6(r))),
            "small", {})
    ELSE IF IsUnit(r) THEN
        KernelRet(P_L, k, q, r,
            FAdd(D(-88), FMul(D(8), FSub(r, One))),
            "unit", {})
    ELSE IF IsLarge(r) THEN
        KernelRet(P_L, k, q, r,
            FSub(FSub(FAdd(Ratio(-488, 5), FDiv(Ratio(96, 5), pow2(r))),
                      FDiv(Ratio(160, 21), pow4(r))),
                 FDiv(Ratio(1376, 1155), pow6(r))),
            "large", {pow2(r), pow4(r), pow6(r)})
    ELSE
        KernelRet(P_L, k, q, r,
            FAdd(FSub(FAdd(FSub(FDiv(D(12), pow2(r)), D(158)),
                           FMul(D(100), pow2(r))),
                      FMul(D(42), pow4(r))),
                 FMul(FMul(FMul(FDiv(D(3), pow3(r)), pow3(FSub(FMul(r, r), One))),
                           FAdd(FMul(FMul(D(7), r), r), D(2))),
                      LogTerm(r))),
            "exact", {pow2(r), pow3(r), FAbs(FSub(One, r))})
f13_dd_q(P_L, k, q) == f13_dd_r(P_L, k, q, FDiv(q, k))
f13_dd(P_L, k, logq) == f13_dd_q(P_L, k, Exp(logq))

f13_dt_r(P_L, k, q, r) ==
    IF IsSmall(r) THEN
        KernelRet(P_L, k, q, r,
            FAdd(FSub(FAdd(D(-168), FMul(Ratio(416, 5), pow2(r))),
                      FMul(Ratio(2976, 35), pow4(r))),
                 FMul(Ratio(224, 15), pow6(r))),
            "small", {})
    ELSE IF IsUnit(r) THEN
        KernelRet(P_L, k, q, r,
            FSub(D(-152), FMul(D(56), FSub(r, One))),
            "unit", {})
    ELSE IF IsLarge(r) THEN
        KernelRet(P_L, k, q, r,
            FSub(FSub(FAdd(D(-200), FDiv(Ratio(2208, 35), pow2(r))),
                      FDiv(Ratio(1312, 105), pow4(r))),
                 FDiv(Ratio(1888, 1155), pow6(r))),
            "large", {pow2(r), pow4(r), pow6(r)})
    ELSE
        KernelRet(P_L, k, q, r,
            FAdd(FSub(FAdd(FSub(FDiv(D(24), pow2(r)), D(202)),
                           FMul(D(56), pow2(r))),
                      FMul(D(30), pow4(r))),
                 FMul(FMul(FMul(FDiv(D(3), pow3(r)), pow3(FSub(FMul(r, r), One))),
                           FAdd(FMul(FMul(D(5), r), r), D(4))),
                      LogTerm(r))),
            "exact", {pow2(r), pow3(r), FAbs(FSub(One, r))})
f13_dt_q(P_L, k, q) == f13_dt_r(P_L, k, q, FDiv(q, k))
f13_dt(P_L, k, logq) == f13_dt_q(P_L, k, Exp(logq))

f13_tt_r(P_L, k, q, r) ==
    IF IsSmall(r) THEN
        KernelRet(P_L, k, q, r,
            FAdd(FSub(FSub(D(-56), FMul(Ratio(32, 5), pow2(r))),
                      FMul(Ratio(96, 7), pow4(r))),
                 FMul(Ratio(352, 105), pow6(r))),
            "small", {})
    ELSE IF IsUnit(r) THEN
        KernelRet(P_L, k, q, r,
            FSub(D(-72), FMul(D(40), FSub(r, One))),
            "unit", {})
    ELSE IF IsLarge(r) THEN
        KernelRet(P_L, k, q, r,
            FSub(FSub(FAdd(Ratio(-504, 5), FDiv(Ratio(1248, 35), pow2(r))),
                      FDiv(Ratio(608, 105), pow4(r))),
                 FDiv(Ratio(160, 231), pow6(r))),
            "large", {pow2(r), pow4(r), pow6(r)})
    ELSE
        KernelRet(P_L, k, q, r,
            FAdd(FSub(FAdd(FSub(FDiv(D(12), pow2(r)), D(82)),
                           FMul(D(4), pow2(r))),
                      FMul(D(6), pow4(r))),
                 FMul(FMul(FMul(FDiv(D(3), pow3(r)), pow3(FSub(FMul(r, r), One))),
                           FAdd(FMul(r, r), D(2))),
                      LogTerm(r))),
            "exact", {pow2(r), pow3(r), FAbs(FSub(One, r))})
f13_tt_q(P_L, k, q) == f13_tt_r(P_L, k, q, FDiv(q, k))
f13_tt(P_L, k, logq) == f13_tt_q(P_L, k, Exp(logq))

(***************************************************************************)
(* The closures handed to the engine: bind(f, cref(P_L), k, _1, _2) for a  *)
(* P22 integrand f and bind(f, cref(P_L), k, _1) for a P13 kernel f.       *)
(***************************************************************************)
Bind(f, P_L, k) == [f |-> f, P_L |-> P_L, k |-> k]

Call1(c, logq) ==
    CASE c.f = "f13_dd" -> f13_dd(c.P_L, c.k, logq)
      [] c.f = "f13_dt" -> f13_dt(c.P_L, c.k, logq)
      [] c.f = "f13_tt" -> f13_tt(c.P_L, c.k, logq)

Call2(c, logu, v) ==
    CASE c.f = "P22_dd_integrand" -> P22_dd_integrand(c.P_L, c.k, logu, v)
      [] c.f = "P22_dt_integrand" -> P22_dt_integrand(c.P_L, c.k, logu, v)
      [] c.f = "P22_tt_integrand" -> P22_tt_integrand(c.P_L, c.k, logu, v)

(***************************************************************************)
(* The quadrature engine (Quadrature.h), a collaborator of which SPT.cpp   *)
(* fixes only the interface.  It is modelled as a deterministic rule that  *)
(* evaluates the integrand closure at points of the closed domain it is    *)
(* handed: Simpson's rule on both end points and the mid point, nested in  *)
(* two dimensions.  The tolerances do not change what this rule returns.   *)
(***************************************************************************)
\* the rule's points on [a, b] of width h: both ends and the mid point
SimpsonPoints(a, b, h) == <<a, FAdd(a, FMul(h, Half)), b>>

\* the sum so far with the i-th value added, the mid point counting 4 times
SimpsonWeighted(i, v) == IF i = 2 THEN FMul(D(4), v) ELSE v
SimpsonTerm(acc, i, f) ==
    IF i = 1 THEN f
    ELSE Ret(FAdd(acc.v, SimpsonWeighted(i, f.v)), Join(acc.fx, f.fx))
SimpsonScaled(h, sum) == Ret(FMul(FDiv(h, D(6)), sum.v), sum.fx)

\* the rule on [a, b] for a closure of one argument
RECURSIVE SimpsonFrom(_, _, _, _)
SimpsonFrom(c, xs, i, acc) ==
    IF i > Len(xs) THEN acc
    ELSE SimpsonFrom(c, xs, i + 1, SimpsonTerm(acc, i, Call1(c, xs[i])))
Simpson(c, a, b) ==
    SimpsonScaled(FSub(b, a),
                  SimpsonFrom(c, SimpsonPoints(a, b, FSub(b, a)), 1, Ret(Zero(0), NoFx)))

\* the rule in the second argument of a closure of two, the first being x
RECURSIVE SimpsonRowFrom(_, _, _, _, _)
SimpsonRowFrom(c, x, ys, j, acc) ==
    IF j > Len(ys) THEN acc
    ELSE SimpsonRowFrom(c, x, ys, j + 1, SimpsonTerm(acc, j, Call2(c, x, ys[j])))
SimpsonRow(c, x, a, b) ==
    SimpsonScaled(FSub(b, a),
                  SimpsonRowFrom(c, x, SimpsonPoints(a, b, FSub(b, a)), 1,
                                 Ret(Zero(0), NoFx)))

\* the rule in the first argument, each value a rule in the second
RECURSIVE Simpson2From(_, _, _, _, _, _)
Simpson2From(c, xs, a2, b2, i, acc) ==
    IF i > Len(xs) THEN acc
    ELSE Simpson2From(c, xs, a2, b2, i + 1,
                      SimpsonTerm(acc, i, SimpsonRow(c, xs[i], a2, b2)))
Simpson2(c, a, b) ==
    SimpsonScaled(FSub(b[1], a[1]),
                  Simpson2From(c, SimpsonPoints(a[1], b[1], FSub(b[1], a[1])),
                               a[2], b[2], 1, Ret(Zero(0), NoFx)))

Invoked(s) == Ret(s.v, [s.fx EXCEPT !.engine = @ + 1])

Integrate(c, a, b, epsrel, epsabs) == Invoked(Simpson(c, a, b))

Integrate2(c, a, b, epsrel, epsabs) == Invoked(Simpson2(c, a, b))

\* V times the integral, and what computing V, umax, epsabs and the integral did
P22_scaled(k, V, I) ==
    Ret(FMul(V, I.v),
        Join(I.fx, [NoFx EXCEPT !.pl = {k},
                                !.div = {<<"2*qmax/k", k>>, <<"epsabs", V>>}]))

P22_over(f, P_L, k, epsrel, umax, V) ==
    P22_scaled(k, V,
        Integrate2(Bind(f, P_L, k),
                   <<Log(One), Zero(0)>>, <<Log(umax), One>>,
                   epsrel, FDiv(FMul(epsrel, PLEval(P_L, k)), V)))

\* the degenerate case of the P22 driver: k <= 0
Negative(k) == FLt(k, Zero(0))
NonPositive(k) == FLe(k, Zero(0))

ComputeP22Integral(f, P_L, k, epsrel, qmax) ==
    IF NonPositive(k) THEN Ret(Zero(0), NoFx)
    ELSE P22_over(f, P_L, k, epsrel,
                  FDiv(FMul(D(2), qmax), k),
                  FDiv(k, FMul(FMul(D(2), M_PI), M_PI)))

\* the members of an SPT object: this.C, this.P_L, this.epsrel
P22_dd(this, k) ==
    ComputeP22Integral("P22_dd_integrand", this.P_L, k, this.epsrel, QMAX)

P22_dt(this, k) ==
    ComputeP22Integral("P22_dt_integrand", this.P_L, k, this.epsrel, QMAX)

P22_tt(this, k) ==
    ComputeP22Integral("P22_tt_integrand", this.P_L, k, this.epsrel, QMAX)

\* V times the integral, and what computing V, epsabs and the integral did
P13_scaled(k, V, I) ==
    Ret(FMul(V, I.v),
        Join(I.fx, [NoFx EXCEPT !.pl = {k}, !.div = {<<"epsabs", V>>}]))

\* P_{\delta\delta}^{(13)}
P13_dd_V(this, k, V) ==
    P13_scaled(k, V,
        Integrate(Bind("f13_dd", this.P_L, k), Log(QMIN), Log(QMAX),
                  this.epsrel, FDiv(FMul(this.epsrel, PLEval(this.P_L, k)), V)))
P13_dd(this, k) ==
    P13_dd_V(this, k,
        FMul(FDiv(FMul(k, k), FMul(FMul(D(252 * 4), M_PI), M_PI)),
             PLEval(this.P_L, k)))

\* P_{\delta\theta}^{(13)}
P13_dt_V(this, k, V) ==
    P13_scaled(k, V,
        Integrate(Bind("f13_dt", this.P_L, k), Log(QMIN), Log(QMAX),
                  this.epsrel, FDiv(FMul(this.epsrel, PLEval(this.P_L, k)), V)))
P13_dt(this, k) ==
    P13_dt_V(this, k,
        FMul(FDiv(FMul(k, k), FMul(FMul(D(252 * 4), M_PI), M_PI)),
             PLEval(this.P_L, k)))

\* P_{\theta\theta}^{(13)}
P13_tt_V(this, k, V) ==
    P13_scaled(k, V,
        Integrate(Bind("f13_tt", this.P_L, k), Log(QMIN), Log(QMAX),
                  this.epsrel, FDiv(FMul(this.epsrel, PLEval(this.P_L, k)), V)))
P13_tt(this, k) ==
    P13_tt_V(this, k,
        FMul(FDiv(FMul(k, k), FMul(FMul(D(84 * 4), M_PI), M_PI)),
             PLEval(this.P_L, k)))

(***************************************************************************)
(* int: 32 bits, two's complement.  a*b that overflows is undefined; the   *)
(* builds of this code multiply with a wrapping instruction, which is the  *)
(* outcome modelled.                                                       *)
(***************************************************************************)
IntMin == (-2147483647) - 1
Abs(n) == IF n < 0 THEN -n ELSE n

\* limb i of x, 0 beyond its length; bits 28..31 of x as a signed number
Limb(x, i) == IF Len(x) >= i THEN x[i] ELSE 0
TopNibble(x) ==
    IF Limb(x, 3) % 16 >= 8 THEN (Limb(x, 3) % 16) - 16 ELSE Limb(x, 3) % 16

\* the value in [-2^31, 2^31) congruent to the natural number x modulo 2^32
Wrap32(x) == Limb(x, 1) + Limb(x, 2) * Base + TopNibble(x) * (Base * Base)

\* the position of (a, b) in a 2 x 2 table stored by rows
RowMajor(a, b) == 2 * (a - 1) + b

Signed(a, b, w) == IF (a < 0) = (b < 0) \/ w = IntMin THEN w ELSE -w
IntMul(a, b) == Signed(a, b, Wrap32(BMul(BFromNat(Abs(a)), BFromNat(Abs(b)))))

\* a sum of reals together with what the summands' calls did
Plus(x, y) == Ret(FAdd(x.v, y.v), Join(x.fx, y.fx))
Tree(this, k) == Ret(PLEval(this.P_L, k), [NoFx EXCEPT !.pl = {k}])
Warned == Ret(Zero(0), [NoFx EXCEPT !.warn = 1])

\* case 2 with the loop terms of two different variants
P_switch_crossed(this, k, ab) ==
    CASE ab = 1 -> Plus(Plus(Tree(this, k), P13_dd(this, k)), P22_dd(this, k))
      [] ab = 2 -> Plus(Plus(Tree(this, k), P13_dt(this, k)), P22_tt(this, k))
      [] ab = 4 -> Plus(Plus(Tree(this, k), P13_tt(this, k)), P22_tt(this, k))
      [] OTHER -> Warned

\* P_{ab}(k): the switch on a*b
P_switch(this, k, ab) ==
    CASE ab = 1 -> Plus(Plus(Tree(this, k), P13_dd(this, k)), P22_dd(this, k))
      [] ab = 2 -> Plus(Plus(Tree(this, k), P13_dt(this, k)), P22_dt(this, k))
      [] ab = 4 -> Plus(Plus(Tree(this, k), P13_tt(this, k)), P22_tt(this, k))
      [] OTHER -> Warned
P(this, k, a, b) == P_switch(this, k, IntMul(a, b))

\* P_{ab}^{(22)}
P22_switch(this, k, ab) ==
    CASE ab = 1 -> P22_dd(this, k)
      [] ab = 2 -> P22_dt(this, k)
      [] ab = 4 -> P22_tt(this, k)
      [] OTHER -> Warned
P22(this, k, a, b) == P22_switch(this, k, IntMul(a, b))

\* P_{ab}^{(13)}
P13_switch(this, k, ab) ==
    CASE ab = 1 -> P13_dd(this, k)
      [] ab = 2 -> P13_dt(this, k)
      [] ab = 4 -> P13_tt(this, k)
      [] OTHER -> Warned
P13(this, k, a, b) == P13_switch(this, k, IntMul(a, b))

G_of(k, p13, plk) ==
    Ret(FAdd(One, FDiv(FMul(Half, p13.v), plk)),
        Join(p13.fx, [NoFx EXCEPT !.pl = {k}, !.div = {<<"G", plk>>}]))
G(this, k) == G_of(k, P13_dd(this, k), PLEval(this.P_L, k))

(***************************************************************************)
(* The state machine.  ctx holds the members of the one SPT object         *)
(* (SPT::SPT stores C, P_L and epsrel).                                    *)
(*                                                                         *)
(* Spec: a caller invokes a public operation with arguments of its choice  *)
(* (Invoke), the operation runs to completion (RunP, RunP22, RunP13, RunG) *)
(* and the caller takes the result (Return).                               *)
(*                                                                         *)
(* SpecKernel: the file-local functions F2, G2, P22_*_integrand and f13_*  *)
(* are applied to sampled arguments (Sample, Eval*, Forget).               *)
(*                                                                         *)
(* SpecConc: several threads call the public operations of the one object  *)
(* at once; a call advances one sub-call at a time (Enter, StepWarn,       *)
(* StepTree, StepP13, StepP22, StepG, Leave), reading the members at each. *)
(***************************************************************************)
VARIABLES ctx, pc, call, res, kern, thr

vars == <<ctx, pc, call, res, kern, thr>>

\* field indices offered by callers: -MaxIdx..MaxIdx, and one whose square
\* does not fit an int
MaxIdx == 4
Indices == ((-MaxIdx)..MaxIdx) \cup {65536}

\* wavenumbers offered by callers: -1, 0, 1, 10, 1e5
KInputs == {D(-1), Zero(0), One, D(10), D(100000)}

Ops == {"P", "P22", "P13", "G"}

SPT(C_, P_L_, epsrel_) == [C |-> C_, P_L |-> P_L_, epsrel |-> epsrel_]

NoCall == [op |-> "none", k |-> Zero(0), a |-> 0, b |-> 0]
NoRes == Ret(Zero(0), NoFx)
NoSample == [fn |-> "none", k |-> Zero(0), x |-> Zero(0), y |-> Zero(0)]
NoOut == [v |-> Zero(0)]
KernIdle == [pc |-> "idle", at |-> NoSample, out |-> NoOut]

NThreads == 2
Threads == 1..NThreads
NoThis == SPT("none", "zero", Zero(0))
ThreadIdle == [pc |-> "idle", call |-> NoCall, this0 |-> NoThis, acc |-> NoRes]

\* the evaluators that construction yields
Objects == {SPT("cosmology", s, Ratio(1, 10000)) : s \in Spectra}

Init ==
    /\ ctx \in Objects
    /\ pc = "idle"
    /\ call = NoCall
    /\ res = NoRes
    /\ kern = KernIdle
    /\ thr = [t \in Threads |-> ThreadIdle]

Invoke(op, k, a, b) ==
    /\ pc = "idle"
    /\ pc' = "called"
    /\ call' = [op |-> op, k |-> k, a |-> a, b |-> b]
    /\ UNCHANGED <<ctx, res, kern, thr>>

RunP ==
    /\ pc = "called" /\ call.op = "P"
    /\ res' = P(ctx, call.k, call.a, call.b)
    /\ pc' = "returned"
    /\ UNCHANGED <<ctx, call, kern, thr>>

RunP22 ==
    /\ pc = "called" /\ call.op = "P22"
    /\ res' = P22(ctx, call.k, call.a, call.b)
    /\ pc' = "returned"
    /\ UNCHANGED <<ctx, call, kern, thr>>

RunP13 ==
    /\ pc = "called" /\ call.op = "P13"
    /\ res' = P13(ctx, call.k, call.a, call.b)
    /\ pc' = "returned"
    /\ UNCHANGED <<ctx, call, kern, thr>>

RunG ==
    /\ pc = "called" /\ call.op = "G"
    /\ res' = G(ctx, call.k)
    /\ pc' = "returned"
    /\ UNCHANGED <<ctx, call, kern, thr>>

Return ==
    /\ pc = "returned"
    /\ pc' = "idle"
    /\ call' = NoCall
    /\ res' = NoRes
    /\ UNCHANGED <<ctx, kern, thr>>

InvokeAny ==
    \/ \E op \in Ops \ {"G"}, k \in KInputs, a \in Indices, b \in Indices :
           Invoke(op, k, a, b)
    \/ \E k \in KInputs : Invoke("G", k, 0, 0)

Next == InvokeAny \/ RunP \/ RunP22 \/ RunP13 \/ RunG \/ Return

Spec == Init /\ [][Next]_vars

(***************************************************************************)
(* SpecKernel.  The sample points: for F2 and G2 wavenumbers around the    *)
(* clamp QMIN and up to QMAX; for the P22 integrands the corners, edge mid *)
(* points and centre of the domain [log 1, log(2*QMAX/k)] x [0, 1] that    *)
(* ComputeP22Integral hands to the engine; for the P13 kernels points of   *)
(* [log QMIN, log QMAX], its end points among them.                        *)
(***************************************************************************)
K2Samples == {Ratio(1, 1000), One, D(10), D(100000)}
Q2Samples == {Zero(0), Ratio(1, 1000000), QMIN, Ratio(3, 10), One, QMAX}

K22Samples == {Ratio(1, 1000), One, D(10), D(1000), D(100000)}
PointAt(a, b, w) == FAdd(a, FMul(FSub(b, a), w))
LoguMax(k) == Log(FDiv(FMul(D(2), QMAX), k))
LoguSamples(k) == {Log(One), PointAt(Log(One), LoguMax(k), Half), LoguMax(k)}
VSamples == {Zero(0), Half, One}

K13Samples == {D(-1), Zero(0), Ratio(1, 1000), One, D(10), D(1000), D(100000)}
LogqSamples ==
    {Log(QMIN), Zero(0), Log(QMAX), Log(Ratio(1, 1000)), Log(D(10)), Log(D(1000)),
     PointAt(Log(QMIN), Log(QMAX), Ratio(1, 4)),
     PointAt(Log(QMIN), Log(QMAX), Ratio(3, 4))}

Kernels2 == {"F2", "G2"}
Integrands22 == {"P22_dd_integrand", "P22_dt_integrand", "P22_tt_integrand"}
Kernels13 == {"f13_dd", "f13_dt", "f13_tt"}

Sample(fn, k, x, y) ==
    /\ kern.pc = "idle"
    /\ kern' = [pc |-> "sampled", at |-> [fn |-> fn, k |-> k, x |-> x, y |-> y],
                out |-> NoOut]
    /\ UNCHANGED <<ctx, pc, call, res, thr>>

SampleAny ==
    \/ \E fn \in Kernels2, k \in K2Samples, q \in Q2Samples, r \in Q2Samples :
           Sample(fn, k, q, r)
    \/ \E fn \in Integrands22, k \in K22Samples, v \in VSamples :
           \E logu \in LoguSamples(k) : Sample(fn, k, logu, v)
    \/ \E fn \in Kernels13, k \in K13Samples, logq \in LogqSamples :
           Sample(fn, k, logq, Zero(0))

Evaluated(fn, out) ==
    /\ kern.pc = "sampled" /\ kern.at.fn = fn
    /\ kern' = [kern EXCEPT !.pc = "done", !.out = out]
    /\ UNCHANGED <<ctx, pc, call, res, thr>>

EvalF2 == Evaluated("F2", [v |-> F2(kern.at.k, kern.at.x, kern.at.y)])

EvalG2 == Evaluated("G2", [v |-> G2(kern.at.k, kern.at.x, kern.at.y)])

EvalP22dd ==
    Evaluated("P22_dd_integrand",
              P22_dd_integrand(ctx.P_L, kern.at.k, kern.at.x, kern.at.y))

EvalP22dt ==
    Evaluated("P22_dt_integrand",
              P22_dt_integrand(ctx.P_L, kern.at.k, kern.at.x, kern.at.y))

EvalP22tt ==
    Evaluated("P22_tt_integrand",
              P22_tt_integrand(ctx.P_L, kern.at.k, kern.at.x, kern.at.y))

Evalf13dd == Evaluated("f13_dd", f13_dd(ctx.P_L, kern.at.k, kern.at.x))

Evalf13dt == Evaluated("f13_dt", f13_dt(ctx.P_L, kern.at.k, kern.at.x))

Evalf13tt == Evaluated("f13_tt", f13_tt(ctx.P_L, kern.at.k, kern.at.x))

Forget ==
    /\ kern.pc = "done"
    /\ kern' = KernIdle
    /\ UNCHANGED <<ctx, pc, call, res, thr>>

NextKernel ==
    \/ SampleAny
    \/ EvalF2 \/ EvalG2
    \/ EvalP22dd \/ EvalP22dt \/ EvalP22tt
    \/ Evalf13dd \/ Evalf13dt \/ Evalf13tt
    \/ Forget

SpecKernel == Init /\ [][NextKernel]_vars

(***************************************************************************)
(* SpecConc.  Each public operation is a const member function: it reads   *)
(* the members and calls P_L and the drivers, one after the other.  A      *)
(* thread in a call holds the arguments, the sum so far (acc) and, for the *)
(* record, the members as they were when it entered (this0).  The steps    *)
(* of different threads interleave freely.                                 *)
(***************************************************************************)
ConcCalls ==
    {[op |-> "P", k |-> One, a |-> 1, b |-> 2],
     [op |-> "P", k |-> One, a |-> 3, b |-> 1],
     [op |-> "P22", k |-> D(10), a |-> 2, b |-> 2],
     [op |-> "P22", k |-> D(10), a |-> 1, b |-> 3],
     [op |-> "P13", k |-> One, a |-> 1, b |-> 1],
     [op |-> "P13", k |-> One, a |-> 0, b |-> 2],
     [op |-> "G", k |-> D(10), a |-> 0, b |-> 0]}

\* P13_switch and P22_switch at the wavenumbers of ConcCalls on a
\* constructed evaluator, computed once; elsewhere computed in place
ConcK == {c.k : c \in ConcCalls}
Loops13 ==
    [this \in Objects, k \in ConcK, ab \in {1, 2, 4} |-> P13_switch(this, k, ab)]
Loops22 ==
    [this \in Objects, k \in ConcK, ab \in {1, 2, 4} |-> P22_switch(this, k, ab)]
Tabled(this, k, ab) == this \in Objects /\ k \in ConcK /\ ab \in {1, 2, 4}
P13_at(this, k, ab) ==
    IF Tabled(this, k, ab) THEN Loops13[this, k, ab] ELSE P13_switch(this, k, ab)
P22_at(this, k, ab) ==
    IF Tabled(this, k, ab) THEN Loops22[this, k, ab] ELSE P22_switch(this, k, ab)

Key(t) == IntMul(thr[t].call.a, thr[t].call.b)
KeyValid(t) == Key(t) \in {1, 2, 4}
At(t, op, where) == thr[t].call.op = op /\ thr[t].pc = where

Advance(t, where, acc) ==
    /\ thr' = [thr EXCEPT ![t].pc = where, ![t].acc = acc]
    /\ UNCHANGED <<ctx, pc, call, res, kern>>

\* a step that, besides computing, stores the wavenumber into a member
AdvanceStoring(t, where, acc) ==
    /\ thr' = [thr EXCEPT ![t].pc = where, ![t].acc = acc]
    /\ ctx' = [ctx EXCEPT !.epsrel = thr[t].call.k]
    /\ UNCHANGED <<pc, call, res, kern>>

Enter(t, c) ==
    /\ thr[t].pc = "idle"
    /\ thr' = [thr EXCEPT ![t] = [pc |-> "entered", call |-> c, this0 |-> ctx,
                                  acc |-> NoRes]]
    /\ UNCHANGED <<ctx, pc, call, res, kern>>

\* the default case of the three switches
StepWarn(t) ==
    /\ thr[t].pc = "entered" /\ thr[t].call.op \in {"P", "P22", "P13"}
    /\ ~KeyValid(t)
    /\ Advance(t, "done", Warned)

\* P_L(k), the first summand of P
StepTreeStoring(t) ==
    /\ At(t, "P", "entered") /\ KeyValid(t)
    /\ AdvanceStoring(t, "tree", Tree(ctx, thr[t].call.k))

StepTree(t) ==
    /\ At(t, "P", "entered") /\ KeyValid(t)
    /\ Advance(t, "tree", Tree(ctx, thr[t].call.k))

\* P13_dd, P13_dt or P13_tt: the second summand of P, all of P13, and
\* P13_dd in G
SumP13(t, x) ==
    Advance(t, IF thr[t].call.op = "P13" THEN "done" ELSE "p13",
            IF thr[t].call.op = "P" THEN Plus(thr[t].acc, x) ELSE x)
StepP13(t) ==
    /\ \/ At(t, "P", "tree")
       \/ At(t, "P13", "entered") /\ KeyValid(t)
       \/ At(t, "G", "entered")
    /\ SumP13(t, P13_at(ctx, thr[t].call.k,
                        IF thr[t].call.op = "G" THEN 1 ELSE Key(t)))

\* P22_dd, P22_dt or P22_tt: the third summand of P, and all of P22
SumP22(t, x) ==
    Advance(t, "done", IF thr[t].call.op = "P" THEN Plus(thr[t].acc, x) ELSE x)
StepP22(t) ==
    /\ \/ At(t, "P", "p13")
       \/ At(t, "P22", "entered") /\ KeyValid(t)
    /\ SumP22(t, P22_at(ctx, thr[t].call.k, Key(t)))

\* 1 + 0.5*P13_dd(k)/P_L(k)
StepG(t) ==
    /\ At(t, "G", "p13")
    /\ Advance(t, "done",
               G_of(thr[t].call.k, thr[t].acc, PLEval(ctx.P_L, thr[t].call.k)))

Leave(t) ==
    /\ thr[t].pc = "done"
    /\ thr' = [thr EXCEPT ![t] = ThreadIdle]
    /\ UNCHANGED <<ctx, pc, call, res, kern>>

NextConc ==
    \E t \in Threads :
        \/ \E c \in ConcCalls : Enter(t, c)
        \/ StepWarn(t) \/ StepTree(t) \/ StepP13(t) \/ StepP22(t) \/ StepG(t)
        \/ Leave(t)

SpecConc == Init /\ [][NextConc]_vars

\* what a call returns when it runs alone on the object this
Alone(this, c) ==
    CASE c.op = "P" -> P(this, c.k, c.a, c.b)
      [] c.op = "P22" -> P22(this, c.k, c.a, c.b)
      [] c.op = "P13" -> P13(this, c.k, c.a, c.b)
      [] c.op = "G" -> G(this, c.k)

\* the same for the calls of ConcCalls on a constructed evaluator, computed
\* once
Sequential == [this \in Objects, c \in ConcCalls |-> Alone(this, c)]
AloneOn(this, c) ==
    IF this \in Objects /\ c \in ConcCalls THEN Sequential[this, c]
    ELSE Alone(this, c)

(***************************************************************************)
(* The properties.                                                         *)
(***************************************************************************)
Returned(op) == pc = "returned" /\ call.op = op
ValidIdx(a, b) == a \in {1, 2} /\ b \in {1, 2}
Positive(k) == FGt(k, Zero(0))
InRange(w) == FLe(QMIN, w) /\ FLe(w, QMAX)
Sampled(fns) == kern.pc = "done" /\ kern.at.fn \in fns

\* C1: for k > 0 and a, b in {1,2}, P(k,a,b) returns exactly
\* P_L(k) + P13(k,a,b) + P22(k,a,b), the loop terms being the ones P13 and
\* P22 select for the same (a,b).
C1_TreePlusLoops ==
    (Returned("P") /\ Positive(call.k) /\ ValidIdx(call.a, call.b))
    => res.v = FAdd(FAdd(PLEval(ctx.P_L, call.k),
                         P13(ctx, call.k, call.a, call.b).v),
                    P22(ctx, call.k, call.a, call.b).v)

\* P(k,1,2) has returned a finite non-zero sum on the spectrum P_L(k) = k
C1_Witness ==
    /\ Returned("P") /\ Positive(call.k) /\ call.a = 1 /\ call.b = 2
    /\ ctx.P_L = "linear" /\ res.v.c = "fin"
    /\ P13(ctx, call.k, 1, 2).v.c = "fin" /\ P22(ctx, call.k, 1, 2).v.c = "fin"

\* C2: for all k and all integers a, b, each of P, P22 and P13 returns for
\* (k,a,b) the value it returns for (k,b,a); P(k,1,2) and P(k,2,1) both
\* select the dt variant.
C2_DispatchSymmetric ==
    /\ Returned("P") => res.v = P(ctx, call.k, call.b, call.a).v
    /\ Returned("P22") => res.v = P22(ctx, call.k, call.b, call.a).v
    /\ Returned("P13") => res.v = P13(ctx, call.k, call.b, call.a).v
    /\ (Returned("P") /\ {call.a, call.b} = {1, 2})
       => res.v = Plus(Plus(Tree(ctx, call.k), P13_dt(ctx, call.k)),
                       P22_dt(ctx, call.k)).v

\* P(k,2,1) has returned a finite non-zero value, with no diagnostic
C2_Witness ==
    /\ Returned("P") /\ call.a = 2 /\ call.b = 1 /\ Positive(call.k)
    /\ res.v.c = "fin" /\ res.fx.warn = 0

\* C3: whenever a or b is not in {1,2}, each of P, P22 and P13 emits a
\* diagnostic through warning() and returns 0.
C3_InvalidIndexWarns ==
    (pc = "returned" /\ call.op \in {"P", "P22", "P13"}
        /\ ~ValidIdx(call.a, call.b))
    => res.fx.warn >= 1 /\ FEq(res.v, Zero(0))

\* C4: for k <= 0 and valid a, b, P22(k,a,b) (each variant's driver)
\* returns 0 at once: no P_L evaluation, no engine invocation, no division
\* 2*qmax/k.
C4_P22Degenerate ==
    (Returned("P22") /\ FLe(call.k, Zero(0)) /\ ValidIdx(call.a, call.b))
    => res = Ret(Zero(0), NoFx)

\* P22(0,2,2), the tt driver at k = 0, has returned
C4_Witness ==
    /\ Returned("P22") /\ call.k = Zero(0) /\ call.a = 2 /\ call.b = 2
    /\ res.v = Zero(0)

\* C5: with k <= 0 a P13 driver (reached through P13 or P, valid a, b)
\* ends before any integrand evaluation: the engine is not invoked, no
\* division q/k with k = 0 is performed, the result is finite.
C5_P13Validated ==
    (pc = "returned" /\ call.op \in {"P13", "P"} /\ FLe(call.k, Zero(0))
        /\ ValidIdx(call.a, call.b))
    => /\ res.fx.engine = 0
       /\ \A d \in res.fx.div : ~(d[1] = "q/k" /\ d[2].c = "zero")
       /\ IsFinite(res.v)

\* C6: when P_L(k) = 0, G(k) divides by neither P_L(k) nor V = 0 and does
\* not return a NaN or an infinity.
C6_GGuarded ==
    (Returned("G") /\ FEq(PLEval(ctx.P_L, call.k), Zero(0)))
    => /\ \A d \in res.fx.div : d[2].c # "zero"
       /\ IsFinite(res.v)

\* C7: for k > 0, at every point of the domain handed to the engine the
\* integrand (P13 kernel or P22 integrand) evaluates P_L only at
\* wavenumbers in [QMIN, QMAX].
C7_WavenumbersInRange ==
    (Sampled(Integrands22 \cup Kernels13) /\ Positive(kern.at.k))
    => \A w \in kern.out.fx.pl : InRange(w)

\* C8: F2(k,q,r) = F2(k,r,q) and G2(k,q,r) = G2(k,r,q) for all k, q, r,
\* values below QMIN included.
C8_KernelsSymmetric ==
    /\ Sampled({"F2"}) => kern.out.v = F2(kern.at.k, kern.at.y, kern.at.x)
    /\ Sampled({"G2"}) => kern.out.v = G2(kern.at.k, kern.at.y, kern.at.x)

\* C9: no step of a public operation changes the members, so in every
\* interleaving of concurrent calls the members are the ones each call
\* entered with and a finished call holds what it returns when run alone.
C9_NoMutableState ==
    \A t \in Threads :
        thr[t].pc # "idle"
        => /\ thr[t].this0 = ctx
           /\ thr[t].pc = "done"
              => thr[t].acc = AloneOn(thr[t].this0, thr[t].call)

\* one call of P has finished while another thread is between two of its
\* sub-calls
C9_Witness ==
    \E t, u \in Threads :
        /\ t # u
        /\ thr[t].pc = "done" /\ thr[t].call.op = "P" /\ thr[t].acc.v.c = "fin"
        /\ thr[u].pc \in {"tree", "p13"}

\* the three special-case conditions of the claim, on r itself
C10_Small(r) == FLt(r, Ratio(1, 100))
C10_Unit(r) == FLt(FAbs(FSub(r, One)), Tol)
C10_Large(r) == FGt(r, D(100))
C10_Conditions(r) ==
    {c \in {"small", "unit", "large"} :
        \/ c = "small" /\ C10_Small(r)
        \/ c = "unit" /\ C10_Unit(r)
        \/ c = "large" /\ C10_Large(r)}
C10_Holds(o) ==
    /\ Cardinality(C10_Conditions(o.r)) <= 1
    /\ o.branch \in {"small", "unit", "large", "exact"}
    /\ C10_Conditions(o.r) = {o.branch} \ {"exact"}
    /\ o.branch = "exact"
       => /\ FGe(o.r, Ratio(1, 100)) /\ FLe(o.r, D(100))
          /\ FGe(FAbs(FSub(o.r, One)), Tol)
          /\ \A d \in o.dens : d.c = "fin"

\* C10: in each P13 kernel, for r = q/k > 0, the three special-case
\* conditions are mutually exclusive, the branch taken is the one whose
\* condition holds (whatever the order of the tests), the exact form is
\* taken only for 1e-2 <= r <= 100 and |r-1| >= 1e-10, and there none of
\* its divisors r^2, r^3, |1-r| is zero.
C10_BranchesExclusive ==
    (Sampled(Kernels13) /\ Positive(kern.out.r)) => C10_Holds(kern.out)

\* a kernel has evaluated the exact form
C10_Witness ==
    /\ Sampled(Kernels13) /\ Positive(kern.out.r)
    /\ kern.out.branch = "exact" /\ kern.out.dens # {}

====
